---- MODULE Spec2Model ----
(***************************************************************************)
(* Model of src/sharing/ShareWrapper.js: the ShareWrapper React component. *)
(*                                                                         *)
(* Strings that the code takes apart or builds (the message, the shared    *)
(* URL, the uploaded uri, the JSON text) are sequences of one-character    *)
(* strings; strings that the code only passes on (toast texts, stream and  *)
(* topic names, action types) are TLA+ strings.                            *)
(*                                                                         *)
(* An action is one synchronous run of JavaScript: a handler from its      *)
(* first line to its return or to its next `await`, or the continuation    *)
(* of an `await` from the settlement of the promise to the next `await`    *)
(* or the end of the function.                                             *)
(***************************************************************************)
EXTENDS Integers, Sequences, FiniteSets, TLC

(* ----------------------------- bounds --------------------------------- *)

\* presses of Send (invocations of handleSend) in one behaviour
MaxFlows == 2
\* presses of Cancel in one behaviour
MaxCancels == 1

(* ----------------------------- inputs --------------------------------- *)

\* message texts: the shared text of a text payload, and what the user types
Texts == { <<>>, <<"h", "i">> }

\* shared image URLs: several segments, and no slash at all
ImageUrls ==
  { <<"c", ":", "/", "d", "/", "p", ".", "p", "n", "g">>,
    <<"p", ".", "p", "n", "g">> }

\* shared file URLs: a trailing slash, which leaves an empty file name
FileUrls == { <<"d", "/">> }

\* the uri of the response of api.uploadFile
UploadedUris == { <<"/", "u", "/", "1">> }

SharedDatas ==
  [type : {"text"}, sharedText : Texts]
    \cup [type : {"image"}, sharedImageUrl : ImageUrls]
    \cup [type : {"file"}, sharedFileUrl : FileUrls]

RecipientLists == { <<2, 3>>, <<3, 1>>, <<12>> }

SendTos ==
  [type : {"pm"}, selectedRecipients : RecipientLists]
    \cup [type : {"stream"}, stream : {"general"}, topic : {"news", "misc"}]

OwnUserIds == {1}

\* the isSendButtonEnabled prop: any predicate on the message text
SendButtonPredicates == [Texts -> BOOLEAN]

(* ------------------------------ state --------------------------------- *)

VARIABLES
  sharedData,           \* props.sharedData
  sendTo,               \* props.sendTo
  ownUserId,            \* props.ownUserId
  isSendButtonEnabled,  \* props.isSendButtonEnabled
  state,                \* this.state: [message, sending]
  rendered,             \* the props render() last gave the Input and the buttons
  flows,                \* the invocations of handleSend, in the order they started
  dispatched            \* what NavigationService.dispatch was given, in order

vars ==
  <<sharedData, sendTo, ownUserId, isSendButtonEnabled, state, rendered, flows,
    dispatched>>

props == <<sharedData, sendTo, ownUserId, isSendButtonEnabled>>

\* `by` of a dispatch that a press of Cancel caused (flows are numbered from 1)
User == 0

(* --------------------------- pure helpers ----------------------------- *)

\* String.prototype.split(sep) for a one-character separator
RECURSIVE split(_, _)
split(s, sep) ==
  IF \A i \in 1..Len(s) : s[i] # sep
    THEN << s >>
    ELSE LET i == CHOOSE k \in 1..Len(s) :
                    s[k] = sep /\ \A j \in 1..(k - 1) : s[j] # sep
         IN  << SubSeq(s, 1, i - 1) >> \o split(SubSeq(s, i + 1, Len(s)), sep)

\* Array.prototype.pop(): the last element
pop(a) == a[Len(a)]

\* url.split('/').pop()
FileNameOf(url) == pop(split(url, "/"))

\* the url of an image or file payload
UrlOf(sd) == IF sd.type = "image" THEN sd.sharedImageUrl ELSE sd.sharedFileUrl

\* `\n[${fileName}](${response.uri})`
LinkText(fileName, uri) ==
  <<"\n", "[">> \o fileName \o <<"]", "(">> \o uri \o <<")">>

DigitChar(d) == <<"0", "1", "2", "3", "4", "5", "6", "7", "8", "9">>[d + 1]

\* the decimal text of a non-negative integer, as JSON.stringify writes it
RECURSIVE NumberToString(_)
NumberToString(n) ==
  IF n < 10 THEN << DigitChar(n) >>
            ELSE NumberToString(n \div 10) \o << DigitChar(n % 10) >>

\* JSON.stringify of an array of non-negative integers
RECURSIVE JoinNumbers(_)
JoinNumbers(a) ==
  IF Len(a) = 0 THEN << >>
  ELSE IF Len(a) = 1 THEN NumberToString(a[1])
  ELSE NumberToString(a[1]) \o <<",">> \o JoinNumbers(Tail(a))

JSONStringify(a) == <<"[">> \o JoinNumbers(a) \o <<"]">>

\* MessageData with the stream name and the topic taken for one another
MessageData_swapped(dest, messageToSend) ==
  IF dest.type = "pm"
    THEN [content |-> messageToSend,
          type |-> "private",
          to |-> JSONStringify(dest.selectedRecipients)]
    ELSE [content |-> messageToSend,
          type |-> "stream",
          subject |-> dest.stream,
          to |-> dest.topic]

\* messageData of handleSend
MessageData(dest, messageToSend) ==
  IF dest.type = "pm"
    THEN [content |-> messageToSend,
          type |-> "private",
          to |-> JSONStringify(dest.selectedRecipients)]
    ELSE [content |-> messageToSend,
          type |-> "stream",
          subject |-> dest.topic,
          to |-> dest.stream]

\* pmKeyRecipientsFromIds that leaves the own user out of the recipients
pmKeyRecipientsFromIds_withoutOwn(ids, own) ==
  { ids[i] : i \in 1..Len(ids) } \ {own}

\* utils/recipient pmKeyRecipientsFromIds, which is not part of
\* ShareWrapper.js; taken from the specification: the selected recipients
\* combined with the own user
pmKeyRecipientsFromIds(ids, own) == { ids[i] : i \in 1..Len(ids) } \cup {own}

\* utils/narrow pmNarrowFromRecipients
pmNarrowFromRecipients(recipients) == [type |-> "pm", recipients |-> recipients]

\* utils/narrow streamNarrow
streamNarrow(stream) == [type |-> "stream", stream |-> stream]

\* OnShareSuccessAction that narrows to the selected recipients as given, and
\* to the topic of a stream destination
OnShareSuccessAction_fromSelection(dest, own) ==
  CASE dest.type = "pm" ->
         [type |-> "replaceWithChat",
          narrow |-> pmNarrowFromRecipients(
                       { dest.selectedRecipients[i] :
                           i \in 1..Len(dest.selectedRecipients) })]
    [] dest.type = "stream" ->
         [type |-> "replaceWithChat", narrow |-> streamNarrow(dest.topic)]
    [] OTHER -> [type |-> "navigateBack"]

\* the navigation action onShareSuccess dispatches
OnShareSuccessAction(dest, own) ==
  CASE dest.type = "pm" ->
         [type |-> "replaceWithChat",
          narrow |-> pmNarrowFromRecipients(
                       pmKeyRecipientsFromIds(dest.selectedRecipients, own))]
    [] dest.type = "stream" ->
         [type |-> "replaceWithChat", narrow |-> streamNarrow(dest.stream)]
    [] OTHER -> [type |-> "navigateBack"]

\* the navigation action onShareCancelled dispatches
OnShareCancelledAction == [type |-> "navigateBack"]

\* Render with the Send button disabled while sending as well
Render_disabledWhileSending(st) ==
  [inputValue |-> st.message,
   sendProgress |-> st.sending,
   sendDisabled |-> ~isSendButtonEnabled[st.message] \/ st.sending]

\* what render() gives the Input, the Send button and the image preview
Render(st) ==
  [inputValue |-> st.message,
   sendProgress |-> st.sending,
   sendDisabled |-> ~isSendButtonEnabled[st.message]]

(* ------------------------------ events -------------------------------- *)

\* What one invocation of handleSend did to its collaborators, and what they
\* answered, in order: the entries of a flow's trace.
Toast(text) == [kind |-> "showToast", arg |-> text]
LogError(err) == [kind |-> "logging.error", arg |-> err]
UploadCall(url, fileName) ==
  [kind |-> "uploadFile", arg |-> [url |-> url, fileName |-> fileName]]
UploadResolved(uri) == [kind |-> "uploadFile.resolved", arg |-> uri]
UploadRejected == [kind |-> "uploadFile.rejected", arg |-> "uploadError"]
SendCall(messageData) == [kind |-> "sendMessage", arg |-> messageData]
SendResolved == [kind |-> "sendMessage.resolved", arg |-> "ok"]
SendRejected == [kind |-> "sendMessage.rejected", arg |-> "sendError"]

\* NavigationService.dispatch(action), by a flow or by a press of Cancel
Dispatch(by, action) == [by |-> by, action |-> action]

(* ------------------------------ actions ------------------------------- *)

\* InitialState that starts from an empty message whatever was shared
InitialState_empty(sd) == [message |-> << >>, sending |-> FALSE]

\* the state initializer
InitialState(sd) ==
  [message |-> IF sd.type = "text" THEN sd.sharedText ELSE << >>,
   sending |-> FALSE]

Init ==
  /\ sharedData \in SharedDatas
  /\ sendTo \in SendTos
  /\ ownUserId \in OwnUserIds
  /\ isSendButtonEnabled \in SendButtonPredicates
  /\ state = InitialState(sharedData)
  /\ rendered = Render(state)
  /\ flows = << >>
  /\ dispatched = << >>

\* HandleMessageChange that sets the whole state anew, sending included
HandleMessageChange_resetsSending(message) ==
  /\ state' = [message |-> message, sending |-> FALSE]
  /\ rendered' = Render(state')
  /\ UNCHANGED <<props, flows, dispatched>>

\* handleMessageChange(message), and the render that setState causes
HandleMessageChange(message) ==
  /\ state' = [state EXCEPT !.message = message]
  /\ rendered' = Render(state')
  /\ UNCHANGED <<props, flows, dispatched>>

\* common/ZulipButton: a press calls onPress unless the button is disabled; the
\* progress prop does not keep a press from reaching onPress
SendButtonPressable == ~rendered.sendDisabled

\* SetSending that leaves the state as it is
SetSending_noop(st) == st

\* the state after setSending
SetSending(st) == [st EXCEPT !.sending = TRUE]

\* handleSend from the press of Send to its first await; of a flow, pc is
\* where it stands, messageToSend and fileName are its locals, trace is what it
\* did to its collaborators, and pressed records the message text when Send
\* was pressed
HandleSendStart ==
  /\ Len(flows) < MaxFlows
  /\ SendButtonPressable
  /\ LET messageToSend == state.message
         hasFile == sharedData.type = "image" \/ sharedData.type = "file"
         url == UrlOf(sharedData)
         fileName == FileNameOf(url)
     IN  /\ state' = SetSending(state)
         /\ rendered' = Render(state')
         /\ IF hasFile
              THEN flows' = Append(flows,
                     [pc |-> "awaitUpload",
                      pressed |-> messageToSend,
                      messageToSend |-> messageToSend,
                      fileName |-> fileName,
                      trace |-> << Toast("Sending Message..."),
                                   UploadCall(url, fileName) >>])
              ELSE flows' = Append(flows,
                     [pc |-> "awaitSend",
                      pressed |-> messageToSend,
                      messageToSend |-> messageToSend,
                      fileName |-> << >>,
                      trace |-> << Toast("Sending Message..."),
                                   SendCall(MessageData(sendTo, messageToSend)) >>])
  /\ UNCHANGED <<props, dispatched>>

\* UploadResolves that reads this.state.message again after the upload
UploadResolves_rereadsMessage(f, uri) ==
  /\ f \in DOMAIN flows
  /\ flows[f].pc = "awaitUpload"
  /\ LET messageToSend == state.message \o LinkText(flows[f].fileName, uri)
     IN  flows' = [flows EXCEPT
                     ![f].pc = "awaitSend",
                     ![f].messageToSend = messageToSend,
                     ![f].trace = @ \o << UploadResolved(uri),
                                          SendCall(MessageData(sendTo, messageToSend)) >>]
  /\ UNCHANGED <<props, state, rendered, dispatched>>

\* api.uploadFile resolves: handleSend runs on to its await of api.sendMessage
UploadResolves(f, uri) ==
  /\ f \in DOMAIN flows
  /\ flows[f].pc = "awaitUpload"
  /\ LET messageToSend == flows[f].messageToSend \o LinkText(flows[f].fileName, uri)
     IN  flows' = [flows EXCEPT
                     ![f].pc = "awaitSend",
                     ![f].messageToSend = messageToSend,
                     ![f].trace = @ \o << UploadResolved(uri),
                                          SendCall(MessageData(sendTo, messageToSend)) >>]
  /\ UNCHANGED <<props, state, rendered, dispatched>>

\* UploadRejects that swallows the rejection and goes on to send the message
UploadRejects_continues(f) ==
  /\ f \in DOMAIN flows
  /\ flows[f].pc = "awaitUpload"
  /\ flows' = [flows EXCEPT
                 ![f].pc = "awaitSend",
                 ![f].trace = @ \o << UploadRejected,
                                      SendCall(MessageData(sendTo, flows[f].messageToSend)) >>]
  /\ UNCHANGED <<props, state, rendered, dispatched>>

\* api.uploadFile rejects: the await is outside the try, so handleSend's promise
\* rejects and nothing else of handleSend runs
UploadRejects(f) ==
  /\ f \in DOMAIN flows
  /\ flows[f].pc = "awaitUpload"
  /\ flows' = [flows EXCEPT ![f].pc = "rejected",
                            ![f].trace = Append(@, UploadRejected)]
  /\ UNCHANGED <<props, state, rendered, dispatched>>

\* api.sendMessage resolves: the toast and onShareSuccess
SendResolves(f) ==
  /\ f \in DOMAIN flows
  /\ flows[f].pc = "awaitSend"
  /\ flows' = [flows EXCEPT ![f].pc = "returned",
                            ![f].trace = @ \o << SendResolved, Toast("Message sent") >>]
  /\ dispatched' = Append(dispatched, Dispatch(f, OnShareSuccessAction(sendTo, ownUserId)))
  /\ UNCHANGED <<props, state, rendered>>

\* SendRejects that sends the message again instead of giving up
SendRejects_retries(f) ==
  /\ f \in DOMAIN flows
  /\ flows[f].pc = "awaitSend"
  /\ Len(flows[f].trace) < 8
  /\ flows' = [flows EXCEPT
                 ![f].trace = @ \o << SendRejected,
                                      SendCall(MessageData(sendTo, flows[f].messageToSend)) >>]
  /\ UNCHANGED <<props, state, rendered, dispatched>>

\* SendRejects that also clears the sending flag
SendRejects_resetsSending(f) ==
  /\ f \in DOMAIN flows
  /\ flows[f].pc = "awaitSend"
  /\ flows' = [flows EXCEPT ![f].pc = "returned",
                            ![f].trace = @ \o << SendRejected,
                                                 Toast("Failed to send message"),
                                                 LogError("sendError") >>]
  /\ dispatched' = Append(dispatched, Dispatch(f, OnShareCancelledAction))
  /\ state' = [state EXCEPT !.sending = FALSE]
  /\ rendered' = Render(state')
  /\ UNCHANGED props

\* SendRejects whose catch block lacks the return, so that the success path
\* runs after it
SendRejects_fallsThrough(f) ==
  /\ f \in DOMAIN flows
  /\ flows[f].pc = "awaitSend"
  /\ flows' = [flows EXCEPT ![f].pc = "returned",
                            ![f].trace = @ \o << SendRejected,
                                                 Toast("Failed to send message"),
                                                 LogError("sendError"),
                                                 Toast("Message sent") >>]
  /\ dispatched' = dispatched \o
        << Dispatch(f, OnShareCancelledAction),
           Dispatch(f, OnShareSuccessAction(sendTo, ownUserId)) >>
  /\ UNCHANGED <<props, state, rendered>>

\* api.sendMessage rejects: the catch block
\* api.sendMessage rejects: the catch block, which ends in onShareCancelled
SendRejects(f) ==
  /\ f \in DOMAIN flows
  /\ flows[f].pc = "awaitSend"
  /\ flows' = [flows EXCEPT ![f].pc = "returned",
                            ![f].trace = @ \o << SendRejected,
                                                 Toast("Failed to send message"),
                                                 LogError("sendError") >>]
  /\ dispatched' = Append(dispatched, Dispatch(f, OnShareCancelledAction))
  /\ UNCHANGED <<props, state, rendered>>

\* PressCancel that also abandons the invocations of handleSend in flight
PressCancel_aborts ==
  /\ Cardinality({ i \in DOMAIN dispatched : dispatched[i].by = User }) < MaxCancels
  /\ dispatched' = Append(dispatched, Dispatch(User, OnShareCancelledAction))
  /\ flows' = [f \in DOMAIN flows |->
                 IF flows[f].pc \in {"awaitUpload", "awaitSend"}
                   THEN [flows[f] EXCEPT !.pc = "rejected"]
                   ELSE flows[f]]
  /\ UNCHANGED <<props, state, rendered>>

\* a press of Cancel: onShareCancelled
PressCancel ==
  /\ Cardinality({ i \in DOMAIN dispatched : dispatched[i].by = User }) < MaxCancels
  /\ dispatched' = Append(dispatched, Dispatch(User, OnShareCancelledAction))
  /\ UNCHANGED <<props, state, rendered, flows>>

Next ==
  \/ \E message \in Texts : HandleMessageChange(message)
  \/ HandleSendStart
  \/ \E f \in 1..MaxFlows, uri \in UploadedUris : UploadResolves(f, uri)
  \/ \E f \in 1..MaxFlows : UploadRejects(f)
  \/ \E f \in 1..MaxFlows : SendResolves(f)
  \/ \E f \in 1..MaxFlows : SendRejects(f)
  \/ PressCancel

Spec == Init /\ [][Next]_vars

(* ---------------------------- observers ------------------------------- *)

Flows == DOMAIN flows

HasFile == sharedData.type = "image" \/ sharedData.type = "file"

\* the positions of flow f's trace that hold an entry of kind k
Positions(f, k) == { i \in DOMAIN flows[f].trace : flows[f].trace[i].kind = k }

Has(f, k) == Positions(f, k) # {}

HasToast(f, text) ==
  \E i \in Positions(f, "showToast") : flows[f].trace[i].arg = text

\* the navigation actions flow f (or the User) dispatched, in order
ActionsBy(f) ==
  LET mine == SelectSeq(dispatched, LAMBDA d : d.by = f)
  IN  [i \in DOMAIN mine |-> mine[i].action]

InFlight(f) == flows[f].pc \in {"awaitUpload", "awaitSend"}

Ended(f) == flows[f].pc \in {"returned", "rejected"}

FailedAtUpload(f) == Has(f, "uploadFile.rejected")

FailedAtSend(f) == Has(f, "sendMessage.rejected")

(* ------------------------------ claims -------------------------------- *)

\* C1 (as claimed): whenever handleSend fails at api.uploadFile or at
\* api.sendMessage, the 'Failed to send message' toast is shown, the error is
\* logged and navigateBack is dispatched, and replaceWithChat is not.
C1_FailureIsReported ==
  \A f \in Flows :
    (FailedAtUpload(f) \/ FailedAtSend(f)) =>
      /\ HasToast(f, "Failed to send message")
      /\ Has(f, "logging.error")
      /\ \E i \in DOMAIN ActionsBy(f) : ActionsBy(f)[i].type = "navigateBack"
      /\ \A i \in DOMAIN ActionsBy(f) : ActionsBy(f)[i].type # "replaceWithChat"

\* C2 (as claimed): every invocation of handleSend dispatches exactly one
\* navigation action: never two, and once its upload and send calls have
\* settled exactly one, replaceWithChat when the send succeeded and
\* navigateBack when the upload or the send failed.
C2_ExactlyOneNavigation ==
  \A f \in Flows :
    /\ Len(ActionsBy(f)) <= 1
    /\ Ended(f) =>
         /\ Len(ActionsBy(f)) = 1
         /\ ActionsBy(f)[1].type =
              (IF Has(f, "sendMessage.resolved") THEN "replaceWithChat"
                                                 ELSE "navigateBack")

\* C3 (as claimed): api.sendMessage is called exactly once in every invocation
\* of handleSend, whatever the outcome of the upload: never twice, and once
\* the invocation has ended, once.
C3_SendExactlyOnce ==
  \A f \in Flows :
    /\ Cardinality(Positions(f, "sendMessage")) <= 1
    /\ Ended(f) => Cardinality(Positions(f, "sendMessage")) = 1

\* C3 (amended): api.sendMessage is called at most once in every invocation of
\* handleSend: not while the upload is pending, never after a failed upload,
\* and exactly once otherwise (a text payload, or an upload that succeeded);
\* a failed send is not retried.
C3_SendOnceUnlessUploadFails ==
  \A f \in Flows :
    Cardinality(Positions(f, "sendMessage")) =
      (IF flows[f].pc = "awaitUpload" \/ FailedAtUpload(f) THEN 0 ELSE 1)

\* C3 witness: one invocation ended by a failed upload, another by a failed send
C3_Witness ==
  \E f, g \in Flows :
    /\ Ended(f) /\ FailedAtUpload(f)
    /\ Ended(g) /\ FailedAtSend(g)

\* C4 (as claimed): at most one handleSend flow is in flight at any time.
C4_AtMostOneFlowInFlight ==
  Cardinality({ f \in Flows : InFlight(f) }) <= 1

\* C5: the sending flag is monotonic: false in the initial state, true after
\* every step that starts an invocation of handleSend, and never set back to
\* false by any step.
C5_SendingMonotonic ==
  /\ state.sending = FALSE
  /\ [][ /\ state.sending => state'.sending
         /\ Len(flows') > Len(flows) => state'.sending ]_vars

\* C5 witness: sending is true after a failed send, an edit and a press of Cancel
C5_Witness ==
  /\ state.sending
  /\ state.message # InitialState(sharedData).message
  /\ Len(ActionsBy(User)) > 0
  /\ \E f \in Flows : Ended(f) /\ FailedAtSend(f)

\* C6: for an image or file payload, if api.uploadFile succeeds and the
\* api.sendMessage after it fails, the failure toast is shown, the error is
\* logged, and the invocation dispatches navigateBack and nothing else (no
\* replaceWithChat).
C6_SendFailureAfterUpload ==
  \A f \in Flows :
    (HasFile /\ Has(f, "uploadFile.resolved") /\ FailedAtSend(f)) =>
      /\ HasToast(f, "Failed to send message")
      /\ ~HasToast(f, "Message sent")
      /\ \E i \in Positions(f, "logging.error") : flows[f].trace[i].arg = "sendError"
      /\ ActionsBy(f) = << [type |-> "navigateBack"] >>

\* C6 witness: an upload that succeeded followed by a send that failed
C6_Witness ==
  \E f \in Flows :
    HasFile /\ Has(f, "uploadFile.resolved") /\ FailedAtSend(f) /\ Ended(f)

\* C7: within one invocation the collaborator calls are ordered: for an image
\* or file payload api.uploadFile is called first and api.sendMessage only
\* after that upload has resolved (not before it, not while it is pending, not
\* after it was rejected); for a text payload api.uploadFile is not called; and
\* a navigation action is dispatched only once api.sendMessage has settled.
C7_CallsAreOrdered ==
  \A f \in Flows :
    /\ HasFile =>
         \A i \in Positions(f, "sendMessage") :
           /\ \E j \in Positions(f, "uploadFile.resolved") :
                /\ j < i
                /\ \E k \in Positions(f, "uploadFile") : k < j
           /\ ~FailedAtUpload(f)
    /\ ~HasFile => ~Has(f, "uploadFile")
    /\ Len(ActionsBy(f)) > 0 =>
         /\ Has(f, "sendMessage")
         /\ Has(f, "sendMessage.resolved") \/ Has(f, "sendMessage.rejected")

\* C7 witness: an image or file invocation that uploaded, sent and navigated
C7_Witness ==
  \E f \in Flows :
    HasFile /\ Has(f, "sendMessage.resolved") /\ Len(ActionsBy(f)) = 1

\* C8: in every reachable state the Send button is enabled exactly when
\* isSendButtonEnabled holds of the current message text, whatever the sending
\* flag is.
C8_SendButtonEnabled ==
  (~rendered.sendDisabled) = isSendButtonEnabled[state.message]

\* C8 witness: the Send button is enabled after an edit while a send is in flight
C8_Witness ==
  /\ state.sending
  /\ state.message # InitialState(sharedData).message
  /\ ~rendered.sendDisabled
  /\ \E f \in Flows : InFlight(f)

\* fn is the last '/'-segment of url: the text after the last '/', or all of
\* url when it holds none
IsLastSegment(fn, url) ==
  \E i \in 0..Len(url) :
    /\ fn = SubSeq(url, i + 1, Len(url))
    /\ \A j \in DOMAIN fn : fn[j] # "/"
    /\ i = 0 \/ url[i] = "/"

DigitValue(c) ==
  CASE c = "0" -> 0 [] c = "1" -> 1 [] c = "2" -> 2 [] c = "3" -> 3
    [] c = "4" -> 4 [] c = "5" -> 5 [] c = "6" -> 6 [] c = "7" -> 7
    [] c = "8" -> 8 [] c = "9" -> 9

IsDecimal(s) ==
  /\ Len(s) > 0
  /\ \A i \in DOMAIN s : s[i] \in {"0", "1", "2", "3", "4", "5", "6", "7", "8", "9"}
  /\ Len(s) > 1 => s[1] # "0"

RECURSIVE DecimalValue(_)
DecimalValue(s) ==
  IF Len(s) = 1 THEN DigitValue(s[1])
  ELSE 10 * DecimalValue(SubSeq(s, 1, Len(s) - 1)) + DigitValue(s[Len(s)])

\* text is the JSON encoding of the array of numbers a: brackets around the
\* decimal numbers of a, in the order of a, with commas between them
RECURSIVE IsJSONList(_, _)
IsJSONList(text, a) ==
  IF Len(a) = 0 THEN text = << >>
  ELSE \E n \in 1..Len(text) :
         /\ IsDecimal(SubSeq(text, 1, n))
         /\ DecimalValue(SubSeq(text, 1, n)) = a[1]
         /\ IF Len(a) = 1 THEN n = Len(text)
            ELSE /\ n + 1 <= Len(text)
                 /\ text[n + 1] = ","
                 /\ IsJSONList(SubSeq(text, n + 2, Len(text)), Tail(a))

IsJSONOf(text, a) ==
  /\ Len(text) >= 2
  /\ text[1] = "["
  /\ text[Len(text)] = "]"
  /\ IsJSONList(SubSeq(text, 2, Len(text) - 1), a)

\* C9: the payload given to api.sendMessage: its content is the message text
\* as it was when Send was pressed, followed for an image or file payload by
\* '\n[fileName](uploadedUri)' exactly once (fileName the last '/'-segment of
\* the shared URL, uploadedUri the uri the upload returned) and by nothing for
\* a text payload; for a pm destination its type is 'private', 'to' is the
\* JSON encoding of the selected recipients in their order and there is no
\* subject; for a stream destination its type is 'stream', its subject the
\* topic and 'to' the stream name.
C9_MessagePayload ==
  \A f \in Flows :
    \A i \in Positions(f, "sendMessage") :
      LET data == flows[f].trace[i].arg
      IN  /\ IF HasFile
               THEN \E r \in Positions(f, "uploadFile.resolved") :
                      \E n \in 0..Len(UrlOf(sharedData)) :
                        LET fn == SubSeq(UrlOf(sharedData), n + 1, Len(UrlOf(sharedData)))
                        IN  /\ r < i
                            /\ IsLastSegment(fn, UrlOf(sharedData))
                            /\ data.content =
                                 flows[f].pressed \o <<"\n", "[">> \o fn \o <<"]", "(">>
                                   \o flows[f].trace[r].arg \o <<")">>
               ELSE data.content = flows[f].pressed
          /\ sendTo.type = "pm" =>
               /\ DOMAIN data = {"content", "type", "to"}
               /\ data.type = "private"
               /\ IsJSONOf(data.to, sendTo.selectedRecipients)
          /\ sendTo.type = "stream" =>
               /\ DOMAIN data = {"content", "type", "subject", "to"}
               /\ data.type = "stream"
               /\ data.subject = sendTo.topic
               /\ data.to = sendTo.stream

\* C9 witness: an edited message sent with an uploaded file of a URL of
\* several segments
C9_Witness ==
  \E f \in Flows :
    /\ HasFile
    /\ Has(f, "sendMessage")
    /\ Len(flows[f].pressed) > 0
    /\ Len(flows[f].fileName) > 0
    /\ flows[f].fileName # UrlOf(sharedData)

\* n is the conversation view of the destination: for a pm destination the pm
\* narrow of a set that holds the own user and every selected recipient and
\* nobody else, for a stream destination the stream narrow of the stream name;
\* neither the topic nor the message text has a part in it
IsNarrowOfDestination(n) ==
  IF sendTo.type = "pm"
    THEN /\ DOMAIN n = {"type", "recipients"}
         /\ n.type = "pm"
         /\ ownUserId \in n.recipients
         /\ \A i \in DOMAIN sendTo.selectedRecipients :
              sendTo.selectedRecipients[i] \in n.recipients
         /\ \A u \in n.recipients :
              \/ u = ownUserId
              \/ \E i \in DOMAIN sendTo.selectedRecipients :
                   sendTo.selectedRecipients[i] = u
    ELSE /\ DOMAIN n = {"type", "stream"}
         /\ n.type = "stream"
         /\ n.stream = sendTo.stream

C11_InitialState ==
  /\ state.message =
       (IF sharedData.type = "text" THEN sharedData.sharedText ELSE << >>)
  /\ state.sending = FALSE
  /\ [](flows = << >> => state.sending = FALSE)

\* C11 witness: a text payload whose shared text is not empty, shown as the
\* message before anything was sent
C11_Witness ==
  /\ sharedData.type = "text"
  /\ sharedData.sharedText # << >>
  /\ state.message = sharedData.sharedText
  /\ rendered.inputValue = sharedData.sharedText
  /\ ~state.sending
  /\ flows = << >>

\* the positions of dispatched at which a press of Cancel dispatched
CancelPositions == { i \in DOMAIN dispatched : dispatched[i].by = User }

\* Cancel was pressed at position i of dispatched while flow f was suspended.
\* Flows are numbered in the order they began, and a flow dispatches as it
\* ends: a later flow g had ended before the press, so f had begun before it,
\* and f is still suspended or has ended after it.
CancelledInFlight(i, f) ==
  /\ i \in CancelPositions
  /\ \E g \in Flows :
       /\ g > f
       /\ \E k \in DOMAIN dispatched : k < i /\ dispatched[k].by = g
  /\ \/ InFlight(f)
     \/ \E j \in DOMAIN dispatched : j > i /\ dispatched[j].by = f

\* C12: a press of Cancel while an invocation of handleSend is suspended on
\* its upload or its send does not abort it: the press dispatches navigateBack
\* at once and leaves every invocation as it was; after the press an
\* invocation is still awaiting its upload (whose response it would go on
\* from) or has called api.sendMessage and awaits it, and once it has returned
\* it has dispatched its own navigation action as well.
C12_CancelDoesNotAbort ==
  /\ [][ Len(dispatched') > Len(dispatched)
           /\ dispatched'[Len(dispatched')].by = User
         => /\ dispatched' =
                 Append(dispatched,
                        [by |-> User, action |-> [type |-> "navigateBack"]])
            /\ flows' = flows
            /\ state' = state ]_vars
  /\ [](CancelPositions # {} =>
          \A f \in Flows :
            /\ flows[f].pc = "awaitUpload" =>
                 \A uri \in UploadedUris : ENABLED UploadResolves(f, uri)
            /\ flows[f].pc = "awaitSend" =>
                 /\ Has(f, "sendMessage")
                 /\ ENABLED SendResolves(f)
                 /\ ENABLED SendRejects(f)
            /\ flows[f].pc = "returned" =>
                 /\ Has(f, "sendMessage")
                 /\ Has(f, "sendMessage.resolved") \/ Has(f, "sendMessage.rejected")
                 /\ Len(ActionsBy(f)) = 1
            /\ flows[f].pc = "rejected" => FailedAtUpload(f))

\* C12 witness: Cancel was pressed while an invocation with a file to upload
\* was suspended, and the message was delivered and its conversation
\* navigated to afterwards
C12_Witness ==
  \E f \in Flows :
    \E i \in CancelPositions :
      /\ HasFile
      /\ CancelledInFlight(i, f)
      /\ Has(f, "sendMessage.resolved")
      /\ \E j \in DOMAIN dispatched :
           /\ j > i
           /\ dispatched[j].by = f
           /\ dispatched[j].action.type = "replaceWithChat"

\* C13: the content that is sent is based on the message text as it was when
\* Send was pressed: an invocation records the text of the moment of the press
\* and keeps it; a change of the message text leaves every invocation as it
\* is; and the content of every api.sendMessage call is that recorded text,
\* followed for an image or file payload by the link to the uploaded file.
C13_ContentIsTextAtPress ==
  [][ /\ \A f \in DOMAIN flows :
           f \in DOMAIN flows' /\ flows'[f].pressed = flows[f].pressed
      /\ Len(flows') > Len(flows) => flows'[Len(flows')].pressed = state.message
      /\ state'.message # state.message =>
           flows' = flows /\ rendered'.inputValue = state'.message
      /\ \A f \in DOMAIN flows' :
           \A i \in DOMAIN flows'[f].trace :
             flows'[f].trace[i].kind = "sendMessage" =>
               IF HasFile
                 THEN \E r \in 1..(i - 1) :
                        /\ flows'[f].trace[r].kind = "uploadFile.resolved"
                        /\ flows'[f].trace[i].arg.content =
                             flows'[f].pressed
                               \o LinkText(FileNameOf(UrlOf(sharedData)),
                                           flows'[f].trace[r].arg)
                 ELSE flows'[f].trace[i].arg.content = flows'[f].pressed ]_vars

\* C13 witness: the text shown differs from the text of the press while the
\* send of an uploaded file is pending
C13_Witness ==
  \E f \in Flows :
    /\ HasFile
    /\ flows[f].pc = "awaitSend"
    /\ Has(f, "sendMessage")
    /\ rendered.inputValue # flows[f].pressed

\* C14: sending is set to true, and the 'Sending Message...' toast is shown,
\* before any network call of an invocation: in every reachable state in
\* which an api.uploadFile or api.sendMessage call is pending or has been
\* made, sending is true, and the toast comes first in the invocation.
C14_SendingBeforeNetwork ==
  \A f \in Flows :
    (Has(f, "uploadFile") \/ Has(f, "sendMessage") \/ InFlight(f)) =>
      /\ state.sending
      /\ rendered.sendProgress
      /\ flows[f].trace[1] = Toast("Sending Message...")
      /\ \A i \in Positions(f, "uploadFile") \cup Positions(f, "sendMessage") : i > 1

\* C14 witness: an upload is pending
C14_Witness ==
  \E f \in Flows :
    flows[f].pc = "awaitUpload" /\ Has(f, "uploadFile") /\ state.sending

\* C15: handleMessageChange(text) changes only the message text, which becomes
\* text: it leaves sending as it is, makes no upload or send call, shows no
\* toast and dispatches no navigation action, in every state; no other step
\* changes the message text.
C15_MessageChangeFrame ==
  [][ /\ \A text \in Texts :
           HandleMessageChange(text) =>
             /\ state'.message = text
             /\ state'.sending = state.sending
             /\ flows' = flows
             /\ dispatched' = dispatched
      /\ state'.message # state.message =>
           /\ state'.sending = state.sending
           /\ flows' = flows
           /\ dispatched' = dispatched ]_vars

\* C15 witness: the message text was changed while the send of a text payload
\* is pending
C15_Witness ==
  \E f \in Flows :
    /\ ~HasFile
    /\ flows[f].pc = "awaitSend"
    /\ state.sending
    /\ state.message # flows[f].pressed

====
